---- MODULE Spec2Model ----
(***************************************************************************)
(* Model of dlab.BEH.Project.get_RTdata (src/dlab/BEH.py): the RT          *)
(* data-quality pipeline.  One invocation walks the code blocks of          *)
(* get_RTdata in order: column validation and the numeric-RT copy,          *)
(* _remove_extremes, _identify_missing_data, _filter_outliers by PPT and    *)
(* by Item, and the assignment of self.RTdata.                              *)
(*                                                                          *)
(* Representation.                                                          *)
(*  - An optional number is a tuple: <<>> is NaN / None, <<x>> is x.        *)
(*  - A DataFrame is [cols, rows]: the set of column names and a set of     *)
(*    row records.  A row keeps its pandas index in the field idx.  A       *)
(*    column that is not in cols holds a placeholder in every row.          *)
(*  - mean and std of a group are kept exactly as (n, sum, sum of squares); *)
(*    comparisons against mean -/+ SD*std are done in integer arithmetic.   *)
(*  - A winsorized value is either the raw value or the (symbolic) lower    *)
(*    or upper bound of the group it was computed in.                       *)
(*  - get_RTdata is called with summarize = True (its default); the inner   *)
(*    functions are always called with their own default summarize = True.  *)
(*  - pandas is modelled by its documented behaviour: pd.cut uses           *)
(*    right-closed bins and raises ValueError when the bin edges are not    *)
(*    strictly increasing; mean() and std() skip NaN; std() (ddof = 1) is   *)
(*    NaN for fewer than two values; groupby forms the keys that occur.     *)
(***************************************************************************)
EXTENDS Integers, Sequences, FiniteSets, TLC

VARIABLES data, dataCols, RTdata, cfg, pc, df, err, ran, log

vars == <<data, dataCols, RTdata, cfg, pc, df, err, ran, log>>

(***************************************************************************)
(* Bounds of the model and program constants.                              *)
(***************************************************************************)
MaxRows == 3

\* the rows of a dataset on which get_RTdata is invoked repeatedly
MaxRowsMulti == 2

DefaultLow == 200

DefaultHigh == 5000

DefaultSD == 2

\* std = 0.1 (BEH.py line 189), kept as the fraction FallbackStdNum / FallbackStdDen
FallbackStdNum == 1

FallbackStdDen == 10

NaN == <<>>

Num(x) == <<x>>

IsNaN(v) == v = <<>>

None == <<>>

Some(x) == <<x>>

required_columns == {"PPT", "WordPos", "Condition", "Item", "RT"}

\* Project.__init__ insists on PPT, Condition and Item; WordPos and RT are only
\* recommended, so self.data may lack them.
init_required_columns == {"PPT", "Condition", "Item"}

(***************************************************************************)
(* The datasets Project.data is drawn from.  Each family is a small        *)
(* product of participants, conditions, items and RT values; a dataset is  *)
(* a sequence of at most MaxRows rows of one family (row i has index i).   *)
(* Row order is immaterial to every operation of the pipeline, so only     *)
(* rank-sorted sequences are enumerated.                                   *)
(***************************************************************************)
Families ==
    { [ppts |-> {1, 2}, conds |-> {"Crit", "Fill"}, items |-> {1},
       rts |-> {NaN, Num(DefaultLow), Num(300)}],
      [ppts |-> {1, 2}, conds |-> {"Crit"}, items |-> {1, 2},
       rts |-> {Num(DefaultLow), Num(300), Num(400)}],
      [ppts |-> {1}, conds |-> {"Crit"}, items |-> {1},
       rts |-> {NaN, Num(0), Num(DefaultLow), Num(300), Num(400),
                Num(DefaultHigh), Num(6000)}] }

RawRows(f) ==
    [PPT : f.ppts, Condition : f.conds, Item : f.items, WordPos : {1}, RT : f.rts]

Rank(r) ==
    ((r.PPT * 2 + (IF r.Condition = "Crit" THEN 0 ELSE 1)) * 4 + r.Item) * 10000
        + (IF IsNaN(r.RT) THEN 0 ELSE r.RT[1] + 1)

Datasets ==
    UNION { { s \in [1..n -> RawRows(f)] :
                \A i \in 1..(n - 1) : Rank(s[i]) <= Rank(s[i + 1]) } :
            n \in 0..MaxRows, f \in Families }

\* critical_conditions: a list of condition names (any order; only membership is used)
CritChoices == { {}, {"Crit"} }

\* remove_extremes: None/[]/False (<<>>), or a list [low, high]
WindowChoices ==
    { <<>>, <<DefaultLow, DefaultHigh>>, <<DefaultHigh, DefaultLow>>,
      <<DefaultHigh, DefaultHigh>>, <<0, DefaultHigh>> }

\* filter_outliers: None, a number, or something that is neither ("str")
SDChoices ==
    { [kind |-> "None", k |-> 0], [kind |-> "str", k |-> 0] }
        \cup { [kind |-> "num", k |-> k] : k \in {-1, 0, 1, DefaultSD, 4} }

Configs ==
    [critical_conditions : CritChoices, remove_extremes : WindowChoices,
     identify_missing_data : BOOLEAN, filter_outliers : SDChoices]

NoConfig ==
    [critical_conditions |-> {}, remove_extremes |-> <<>>,
     identify_missing_data |-> FALSE, filter_outliers |-> [kind |-> "None", k |-> 0]]

(***************************************************************************)
(* DataFrames.                                                             *)
(***************************************************************************)
NoBound == [n |-> 0, s |-> 0, q |-> 0, k |-> 0, fb |-> FALSE]

NoValue == [tag |-> "nan", v |-> 0, b |-> NoBound]

EmptyFrame == [cols |-> {}, rows |-> {}]

\* the row of the working copy made from row i of self.data: the five required
\* columns, and placeholders for the derived columns that do not exist yet
FrameRow(i, r) ==
    [idx |-> i, PPT |-> r.PPT, Condition |-> r.Condition, Item |-> r.Item,
     WordPos |-> r.WordPos, RT |-> r.RT,
     RTremove |-> "-", RTremoveVal |-> NaN,
     ppt_labels |-> "-", ppt_values |-> NoValue,
     item_labels |-> "-", item_values |-> NoValue]

\* pd.to_numeric(x, errors='coerce').notnull()
to_numeric_notnull(rt) == ~IsNaN(rt)

\* line 233: the rows of self.data whose RT is numeric, restricted to required_columns
NumericCopy(d) ==
    [cols |-> required_columns,
     rows |-> { FrameRow(i, d[i]) : i \in { j \in DOMAIN d : to_numeric_notnull(d[j].RT) } }]

Conditions(frame) == { r.Condition : r \in frame.rows }

Error(type, line) == [type |-> type, line |-> line]

NoError == Error("-", 0)

(***************************************************************************)
(* _remove_extremes (lines 125-140).                                       *)
(***************************************************************************)
\* pd.cut(x, [0, low, high, inf], labels=['Below','Ok','Above']): the bins are
\* right-closed, (0, low], (low, high], (high, inf]; a value in no bin gets NaN.
cut_extremes(x, low, high) ==
    IF x <= 0 THEN "NaN"
    ELSE IF x <= low THEN "Below"
    ELSE IF x <= high THEN "Ok"
    ELSE "Above"

\* pd.cut raises ValueError unless the bin edges increase strictly
cut_extremes_raises(low, high) == ~(0 < low /\ low < high)

\* lines 127-129: RTremoveVal is RT where low < RT < high, NaN elsewhere
remove_extremes_value(x, low, high) ==
    IF x < high /\ x > low THEN Num(x) ELSE NaN

\* remove_extremes_row reading its own output: once RTremoveVal exists, the
\* band and the value are computed from RTremoveVal instead of RT
remove_extremes_row_chained(r, low, high) ==
    LET x == IF r.RTremove = "-" THEN r.RT ELSE r.RTremoveVal
    IN  [r EXCEPT !.RTremove = IF IsNaN(x) THEN "NaN" ELSE cut_extremes(x[1], low, high),
                  !.RTremoveVal = IF IsNaN(x) THEN NaN
                                  ELSE remove_extremes_value(x[1], low, high)]

remove_extremes_row(r, low, high) ==
    [r EXCEPT !.RTremove = cut_extremes(r.RT[1], low, high),
              !.RTremoveVal = remove_extremes_value(r.RT[1], low, high)]

\* remove_extremes taking "remove" literally: the rows outside the window are
\* dropped from the frame
remove_extremes_drops_rows(frame, low, high) ==
    [cols |-> frame.cols \cup {"RTremove", "RTremoveVal"},
     rows |-> { remove_extremes_row(r, low, high) :
                r \in { x \in frame.rows : x.RT[1] < high /\ x.RT[1] > low } }]

\* every row of df has a numeric RT (line 233)
remove_extremes(frame, low, high) ==
    [cols |-> frame.cols \cup {"RTremove", "RTremoveVal"},
     rows |-> { remove_extremes_row(r, low, high) : r \in frame.rows }]

(***************************************************************************)
(* Grouping (df.groupby([...])): the groups are the key combinations that  *)
(* occur in the rows of the frame.                                         *)
(***************************************************************************)
PptKey(r) == <<r.PPT, r.Condition, r.WordPos>>

ItemKey(r) == <<r.Item, r.Condition, r.WordPos>>

KeyOf(by, r) == IF by = "PPT" THEN PptKey(r) ELSE ItemKey(r)

GroupKeys(frame, by) == { KeyOf(by, r) : r \in frame.rows }

Group(frame, by, key) == { r \in frame.rows : KeyOf(by, r) = key }

\* groupby(...).mean()['RTremoveVal'] is NaN: the group has no defined RTremoveVal
\* (RT, and the Item or PPT column, are never null in df)
mean_isnull(rows) == \A r \in rows : IsNaN(r.RTremoveVal)

\* lines 143-144 and 176-177: the keys whose mean is null
missing_by(frame, by) ==
    { key \in GroupKeys(frame, by) : mean_isnull(Group(frame, by, key)) }

(***************************************************************************)
(* _identify_missing_data (lines 142-182).  The result is the frame, the   *)
(* diagnostics printed, and whether the lookup of 'RTremoveVal' raised.     *)
(***************************************************************************)
\* line 149-153: the critical conditions that own a missing group
critical_conditions_in_data(missing, critical_conditions) ==
    { c \in critical_conditions : \E key \in missing : key[2] = c }

\* line 158: the other conditions that own a missing group
missing_by_ppt_filler(missing, crit_in_data) ==
    { key[2] : key \in { m \in missing : m[2] \notin crit_in_data } }

\* inelig_ppts without the restriction of line 157 to the critical conditions:
\* the participants that own a missing group of any condition
inelig_ppts_any_condition(missing, crit_in_data) ==
    { key[1] : key \in missing }

\* line 159: the participants that own a missing group of a critical condition
inelig_ppts(missing, crit_in_data) ==
    { key[1] : key \in { m \in missing : m[2] \in crit_in_data } }

\* drop_rows without line 162: the ineligible participants are kept
drop_rows_keeps_ppts(frame, ppts, conds) ==
    [frame EXCEPT !.rows = { r \in frame.rows : r.Condition \notin conds }]

\* drop_rows without line 168: the filler conditions are kept
drop_rows_keeps_conditions(frame, ppts, conds) ==
    [frame EXCEPT !.rows = { r \in frame.rows : r.PPT \notin ppts }]

\* lines 162 and 168
drop_rows(frame, ppts, conds) ==
    [frame EXCEPT !.rows = { r \in frame.rows : r.PPT \notin ppts /\ r.Condition \notin conds }]

\* identify_by_ppt without the test of line 149: with no critical_conditions
\* given, every condition of the frame is taken as critical
identify_by_ppt_all_critical(frame, critical_conditions) ==
    LET missing == missing_by(frame, "PPT")
        given   == IF critical_conditions = {} THEN Conditions(frame)
                   ELSE critical_conditions
        crit    == critical_conditions_in_data(missing, given)
    IN  IF missing = {}
        THEN [frame |-> frame, log |-> <<"no_missing_by_ppt">>]
        ELSE IF crit = {}
        THEN [frame |-> frame, log |-> <<"missing_by_ppt", "no_ppts_dropped">>]
        ELSE [frame |-> drop_rows(frame, inelig_ppts(missing, crit),
                                  missing_by_ppt_filler(missing, crit)),
              log |-> <<"missing_by_ppt", "ppts_removed">>
                      \o (IF missing_by_ppt_filler(missing, crit) = {}
                          THEN <<>> ELSE <<"conditions_removed">>)]

\* identify_by_ppt with line 158 moved after line 162: the filler conditions to
\* remove are taken from the groups still missing once the ineligible
\* participants are gone
identify_by_ppt_filler_after_exclusion(frame, critical_conditions) ==
    LET missing == missing_by(frame, "PPT")
        crit    == critical_conditions_in_data(missing, critical_conditions)
        kept    == drop_rows(frame, inelig_ppts(missing, crit), {})
        filler  == missing_by_ppt_filler(missing_by(kept, "PPT"), crit)
    IN  IF missing = {}
        THEN [frame |-> frame, log |-> <<"no_missing_by_ppt">>]
        ELSE IF critical_conditions = {}
        THEN [frame |-> frame, log |-> <<"missing_by_ppt", "no_critical_conditions">>]
        ELSE IF crit = {}
        THEN [frame |-> frame, log |-> <<"missing_by_ppt", "no_ppts_dropped">>]
        ELSE [frame |-> drop_rows(kept, {}, filler),
              log |-> <<"missing_by_ppt", "ppts_removed">>
                      \o (IF filler = {} THEN <<>> ELSE <<"conditions_removed">>)]

\* lines 143-174: the participant perspective and the exclusion policy
identify_by_ppt(frame, critical_conditions) ==
    LET missing == missing_by(frame, "PPT")
        crit    == critical_conditions_in_data(missing, critical_conditions)
    IN  IF missing = {}
        THEN [frame |-> frame, log |-> <<"no_missing_by_ppt">>]
        ELSE IF critical_conditions = {}
        THEN [frame |-> frame, log |-> <<"missing_by_ppt", "no_critical_conditions">>]
        ELSE IF crit = {}
        THEN [frame |-> frame, log |-> <<"missing_by_ppt", "no_ppts_dropped">>]
        ELSE [frame |-> drop_rows(frame, inelig_ppts(missing, crit),
                                  missing_by_ppt_filler(missing, crit)),
              log |-> <<"missing_by_ppt", "ppts_removed">>
                      \o (IF missing_by_ppt_filler(missing, crit) = {}
                          THEN <<>> ELSE <<"conditions_removed">>)]

\* lines 176-180: the item perspective, computed on what the policy left; report only
identify_by_item(frame) ==
    IF missing_by(frame, "Item") = {} THEN <<>> ELSE <<"missing_by_item">>

\* identify_missing_data acting on the item perspective: the rows of an item
\* that owns a missing group are dropped
identify_missing_data_drops_items(frame, critical_conditions) ==
    LET p == identify_by_ppt(frame, critical_conditions)
        m == missing_by(p.frame, "Item")
    IN  [frame |-> [p.frame EXCEPT !.rows = { r \in p.frame.rows : ItemKey(r) \notin m }],
         log |-> p.log \o identify_by_item(p.frame)]

identify_missing_data(frame, critical_conditions) ==
    LET p == identify_by_ppt(frame, critical_conditions)
    IN  [frame |-> p.frame, log |-> p.log \o identify_by_item(p.frame)]

(***************************************************************************)
(* _filter_outliers (lines 184-218).                                       *)
(***************************************************************************)
RECURSIVE SumOver(_, _)
SumOver(rows, sq) ==
    IF rows = {} THEN 0
    ELSE LET r == CHOOSE x \in rows : TRUE
             v == r.RTremoveVal[1]
         IN  (IF sq THEN v * v ELSE v) + SumOver(rows \ {r}, sq)

\* line 187-189: group.mean() and group.std() skip NaN; std (ddof = 1) is NaN for
\* fewer than two values, and only then is it replaced by 0.1 (fb)
Stats(rows, SD) ==
    LET defined == { r \in rows : ~IsNaN(r.RTremoveVal) }
    IN  [n |-> Cardinality(defined), s |-> SumOver(defined, FALSE),
         q |-> SumOver(defined, TRUE), k |-> SD,
         fb |-> Cardinality(defined) < 2]

\* n * (n - 1) * variance
VarNum(st) == st.n * st.q - st.s * st.s

\* x < lower, with lower = mean - SD * std (line 190), SD >= 0
below_lower(x, st) ==
    IF st.fb
    THEN FallbackStdDen * st.n * x < FallbackStdDen * st.s - st.k * FallbackStdNum * st.n
    ELSE LET d == st.s - st.n * x
         IN  d > 0 /\ d * d * (st.n - 1) > st.n * st.k * st.k * VarNum(st)

\* x > upper with the bounds taken at one standard deviation, whatever SD is
above_upper_one_std(x, st) ==
    IF st.fb
    THEN FallbackStdDen * st.n * x > FallbackStdDen * st.s + FallbackStdNum * st.n
    ELSE LET d == st.n * x - st.s
         IN  d > 0 /\ d * d * (st.n - 1) > st.n * VarNum(st)

\* x > upper, with upper = mean + SD * std
above_upper(x, st) ==
    IF st.fb
    THEN FallbackStdDen * st.n * x > FallbackStdDen * st.s + st.k * FallbackStdNum * st.n
    ELSE LET d == st.n * x - st.s
         IN  d > 0 /\ d * d * (st.n - 1) > st.n * st.k * st.k * VarNum(st)

\* x = lower
equals_lower(x, st) ==
    IF st.fb
    THEN FallbackStdDen * st.n * x = FallbackStdDen * st.s - st.k * FallbackStdNum * st.n
    ELSE LET d == st.s - st.n * x
         IN  d >= 0 /\ d * d * (st.n - 1) = st.n * st.k * st.k * VarNum(st)

\* trimmed as the docstring of filter_outliers words it: a value outside the
\* bounds is replaced by the group mean instead of being clamped
trimmed_to_mean(v, st) ==
    IF IsNaN(v) \/ st.n = 0 THEN NoValue
    ELSE IF below_lower(v[1], st) \/ above_upper(v[1], st)
    THEN [tag |-> "mean", v |-> 0, b |-> st]
    ELSE [tag |-> "raw", v |-> v[1], b |-> NoBound]

\* line 191: group.mask(group < lower, lower).mask(group > upper, upper)
trimmed(v, st) ==
    IF IsNaN(v) \/ st.n = 0 THEN NoValue
    ELSE IF below_lower(v[1], st) THEN [tag |-> "lower", v |-> 0, b |-> st]
    ELSE IF above_upper(v[1], st) THEN [tag |-> "upper", v |-> 0, b |-> st]
    ELSE [tag |-> "raw", v |-> v[1], b |-> NoBound]

\* line 192: pd.cut(group, [-inf, lower, upper, inf]); bins (-inf, lower],
\* (lower, upper], (upper, inf]
labels(v, st) ==
    IF IsNaN(v) THEN "NaN"
    ELSE IF below_lower(v[1], st) \/ equals_lower(v[1], st) THEN "Below"
    ELSE IF above_upper(v[1], st) THEN "Above"
    ELSE "Ok"

\* pd.cut raises ValueError("Bin edges must be unique") when lower = upper,
\* that is when SD * std = 0
bins_not_unique(st) == st.n > 0 /\ (st.k = 0 \/ (~st.fb /\ VarNum(st) = 0))

\* a group without any defined value has mean = NaN, so lower and upper are NaN
bins_nan(st) == st.n = 0

\* outliers_row with the column names of the participant perspective pasted into
\* the item perspective: both passes write the ByParticipant label and value
outliers_row_shared_columns(frame, by, r, SD) ==
    LET st == Stats(Group(frame, by, KeyOf(by, r)), SD)
    IN  [r EXCEPT !.ppt_labels = labels(r.RTremoveVal, st),
                  !.ppt_values = trimmed(r.RTremoveVal, st)]

\* lines 186-193 applied to every group of one perspective
outliers_row(frame, by, r, SD) ==
    LET st == Stats(Group(frame, by, KeyOf(by, r)), SD)
    IN  IF by = "PPT"
        THEN [r EXCEPT !.ppt_labels = labels(r.RTremoveVal, st),
                       !.ppt_values = trimmed(r.RTremoveVal, st)]
        ELSE [r EXCEPT !.item_labels = labels(r.RTremoveVal, st),
                       !.item_values = trimmed(r.RTremoveVal, st)]

OutlierColumns(by) ==
    IF by = "PPT"
    THEN {"RTfiltered_by_ppt_labels", "RTfiltered_by_ppt_values"}
    ELSE {"RTfiltered_by_item_labels", "RTfiltered_by_item_values"}

filter_outliers_by(frame, by, SD) ==
    [cols |-> frame.cols \cup OutlierColumns(by),
     rows |-> { outliers_row(frame, by, r, SD) : r \in frame.rows }]

\* some group of the perspective makes pd.cut raise for certain
some_bins_not_unique(frame, by, SD) ==
    \E key \in GroupKeys(frame, by) : bins_not_unique(Stats(Group(frame, by, key), SD))

some_bins_nan(frame, by, SD) ==
    \E key \in GroupKeys(frame, by) : bins_nan(Stats(Group(frame, by, key), SD))

(***************************************************************************)
(* The invocation.                                                         *)
(***************************************************************************)
Init ==
    /\ data \in Datasets
    /\ dataCols \in { init_required_columns \cup extra : extra \in SUBSET {"WordPos", "RT"} }
    \* a frame that lacks a column is taken with at most one row, without RT values
    /\ (dataCols # required_columns =>
            Len(data) <= 1 /\ \A i \in DOMAIN data : IsNaN(data[i].RT))
    /\ RTdata = None
    /\ cfg = NoConfig
    /\ pc = "Start"
    /\ df = EmptyFrame
    /\ err = NoError
    /\ ran = <<>>
    /\ log = <<>>

Raise(type, line) ==
    /\ pc' = "Error"
    /\ err' = Error(type, line)

\* ColumnValidation with line 233 working in place: the rows without a numeric
\* RT are dropped from self.data itself
ColumnValidation_in_place(c) ==
    /\ pc = "Start"
    /\ cfg' = c
    /\ UNCHANGED <<dataCols, RTdata, ran>>
    /\ IF ~(required_columns \subseteq dataCols)
       THEN /\ Raise("NameError", 228)
            /\ UNCHANGED <<data, df, log>>
       ELSE LET copy == NumericCopy(data) IN
            /\ data' = SelectSeq(data, LAMBDA r : to_numeric_notnull(r.RT))
            /\ IF \E cond \in c.critical_conditions : cond \notin Conditions(copy)
               THEN /\ Raise("ValueError", 239)
                    /\ UNCHANGED <<df, log>>
               ELSE IF Conditions(copy) = {}
               THEN /\ Raise("ValueError", 253)
                    /\ df' = copy
                    /\ log' = Append(log, "ppts")
               ELSE /\ pc' = "ExtremeFilter"
                    /\ df' = copy
                    /\ log' = log \o <<"ppts", "conditions", "records">>
                    /\ UNCHANGED err

\* lines 220-255: column validation, the numeric copy, the check of
\* critical_conditions, and the opening summary (summarize = True, the default)
ColumnValidation(c) ==
    /\ pc = "Start"
    /\ cfg' = c
    /\ UNCHANGED <<data, dataCols, RTdata, ran>>
    /\ IF ~(required_columns \subseteq dataCols)
       THEN \* line 228: missing.append(col) -- col is not defined
            /\ Raise("NameError", 228)
            /\ UNCHANGED <<df, log>>
       ELSE LET copy == NumericCopy(data) IN
            IF \E cond \in c.critical_conditions : cond \notin Conditions(copy)
            THEN /\ Raise("ValueError", 239)
                 /\ UNCHANGED <<df, log>>
            ELSE IF Conditions(copy) = {}
            THEN /\ Raise("ValueError", 253)
                 /\ df' = copy
                 /\ log' = Append(log, "ppts")
            ELSE /\ pc' = "ExtremeFilter"
                 /\ df' = copy
                 /\ log' = log \o <<"ppts", "conditions", "records">>
                 /\ UNCHANGED err

\* lines 257-268
ExtremeFilter ==
    /\ pc = "ExtremeFilter"
    /\ UNCHANGED <<data, dataCols, RTdata, cfg>>
    /\ LET w == cfg.remove_extremes IN
       IF w = <<>>
       THEN /\ pc' = "MissingDataDetection"
            /\ log' = Append(log, "extremes_skipped")
            /\ UNCHANGED <<df, err, ran>>
       ELSE IF ~(w[1] < w[2])
       THEN /\ Raise("ValueError", 264)
            /\ UNCHANGED <<df, ran, log>>
       ELSE IF cut_extremes_raises(w[1], w[2])
       THEN /\ Raise("ValueError", 126)
            /\ ran' = Append(ran, "ExtremeFilter")
            /\ UNCHANGED <<df, log>>
       ELSE /\ pc' = "MissingDataDetection"
            /\ df' = remove_extremes(df, w[1], w[2])
            /\ ran' = Append(ran, "ExtremeFilter")
            /\ log' = Append(log, "extremes_summary")
            /\ UNCHANGED err

\* lines 270-271
MissingDataDetection ==
    /\ pc = "MissingDataDetection"
    /\ UNCHANGED <<data, dataCols, RTdata, cfg>>
    /\ IF ~cfg.identify_missing_data
       THEN /\ pc' = "WinsorizeByParticipant"
            /\ UNCHANGED <<df, err, ran, log>>
       ELSE IF "RTremoveVal" \notin df.cols
       THEN \* line 144: by_ppt.mean()[...]['RTremoveVal'] on a frame without it
            /\ Raise("KeyError", 144)
            /\ ran' = Append(ran, "MissingDataDetection")
            /\ UNCHANGED <<df, log>>
       ELSE LET res == identify_missing_data(df, cfg.critical_conditions) IN
            /\ pc' = "WinsorizeByParticipant"
            /\ df' = res.frame
            /\ ran' = Append(ran, "MissingDataDetection")
            /\ log' = log \o res.log
            /\ UNCHANGED err

\* One perspective of _filter_outliers (lines 196-205 or 207-216).  pd.cut raises
\* for certain when a group's bin edges coincide.  Two outcomes depend on the
\* pandas build and both are allowed: whether NaN bin edges (a group with no
\* defined value) make pd.cut raise, and whether an empty frame makes the
\* assignment or the percentage (division by total = 0) raise.
Winsorize(by, stage, line, next, notes) ==
    /\ ran' = Append(ran, stage)
    /\ IF "RTremoveVal" \notin df.cols
       THEN \* groupby(...)['RTremoveVal'] on a frame without it
            /\ Raise("KeyError", line)
            /\ log' = log \o notes
            /\ UNCHANGED df
       ELSE IF some_bins_not_unique(df, by, cfg.filter_outliers.k)
       THEN /\ Raise("ValueError", 192)
            /\ log' = log \o notes
            /\ UNCHANGED df
       ELSE \/ /\ some_bins_nan(df, by, cfg.filter_outliers.k)
               /\ Raise("ValueError", 192)
               /\ log' = log \o notes
               /\ UNCHANGED df
            \/ /\ df.rows = {}
               /\ Raise("Exception", line)
               /\ log' = log \o notes
               /\ UNCHANGED df
            \/ /\ pc' = next
               /\ df' = filter_outliers_by(df, by, cfg.filter_outliers.k)
               /\ log' = log \o notes \o <<stage>>
               /\ UNCHANGED err

\* lines 276-277: the note printed for an SD outside [1, 3]
sd_advisory(k) == IF k < 1 \/ k > 3 THEN <<"sd_advisory">> ELSE <<>>

\* WinsorizeByParticipant without lines 273-275 and 279-280: the type and the
\* sign of filter_outliers are not checked
WinsorizeByParticipant_unchecked ==
    /\ pc = "WinsorizeByParticipant"
    /\ UNCHANGED <<data, dataCols, RTdata, cfg>>
    /\ LET f == cfg.filter_outliers IN
       IF f.kind = "None"
       THEN /\ pc' = "Finish"
            /\ UNCHANGED <<df, err, ran, log>>
       ELSE Winsorize("PPT", "WinsorizeByParticipant", 197, "WinsorizeByItem",
                      sd_advisory(f.k))

\* lines 273-280 and the participant perspective (lines 196-205)
WinsorizeByParticipant ==
    /\ pc = "WinsorizeByParticipant"
    /\ UNCHANGED <<data, dataCols, RTdata, cfg>>
    /\ LET f == cfg.filter_outliers IN
       IF f.kind = "None"
       THEN /\ pc' = "Finish"
            /\ UNCHANGED <<df, err, ran, log>>
       ELSE IF f.kind # "num"
       THEN /\ Raise("TypeError", 280)
            /\ UNCHANGED <<df, ran, log>>
       ELSE IF f.k < 0
       THEN /\ Raise("ValueError", 275)
            /\ UNCHANGED <<df, ran, log>>
       ELSE Winsorize("PPT", "WinsorizeByParticipant", 197, "WinsorizeByItem",
                      sd_advisory(f.k))

\* WinsorizeByItem handing control back to the participant perspective
WinsorizeByItem_back_to_participant ==
    /\ pc = "WinsorizeByItem"
    /\ UNCHANGED <<data, dataCols, RTdata, cfg>>
    /\ Winsorize("Item", "WinsorizeByItem", 208, "WinsorizeByParticipant", <<>>)

\* the item perspective (lines 207-216)
WinsorizeByItem ==
    /\ pc = "WinsorizeByItem"
    /\ UNCHANGED <<data, dataCols, RTdata, cfg>>
    /\ Winsorize("Item", "WinsorizeByItem", 208, "Finish", <<>>)

\* Finish keeping what an earlier invocation stored: the rows of the former
\* RTdata stay beside the new ones
Finish_keeps_earlier_rows ==
    /\ pc = "Finish"
    /\ RTdata' = Some([cols |-> df.cols \cup {"index"},
                       rows |-> df.rows \cup (IF RTdata = None THEN {} ELSE RTdata[1].rows)])
    /\ pc' = "Done"
    /\ log' = Append(log, "success")
    /\ UNCHANGED <<data, dataCols, cfg, df, err, ran>>

\* lines 282-283: self.RTdata = df.reset_index()
Finish ==
    /\ pc = "Finish"
    /\ RTdata' = Some([cols |-> df.cols \cup {"index"}, rows |-> df.rows])
    /\ pc' = "Done"
    /\ log' = Append(log, "success")
    /\ UNCHANGED <<data, dataCols, cfg, df, err, ran>>

Next ==
    \/ \E c \in Configs : ColumnValidation(c)
    \/ ExtremeFilter
    \/ MissingDataDetection
    \/ WinsorizeByParticipant
    \/ WinsorizeByItem
    \/ Finish

Spec == Init /\ [][Next]_vars

(***************************************************************************)
(* Vocabulary of the properties.                                           *)
(***************************************************************************)
Ran(stage) == \E i \in DOMAIN ran : ran[i] = stage

\* the stage raised: the invocation ended in it
Failed(stage) ==
    /\ pc = "Error"
    /\ Len(ran) > 0
    /\ ran[Len(ran)] = stage
    /\ err.line \in {126, 144, 192, 197, 208}

\* the stage ran to its end
Completed(stage) == Ran(stage) /\ ~Failed(stage)

Low == cfg.remove_extremes[1]

High == cfg.remove_extremes[2]

Participants == { data[i].PPT : i \in DOMAIN data }

\* the Records of participant P in condition C, as loaded
RecordsOf(P, C) ==
    { i \in DOMAIN data : data[i].PPT = P /\ data[i].Condition = C }

NumericRecordsOf(P, C) == { i \in RecordsOf(P, C) : ~IsNaN(data[i].RT) }

\* the Ok (in-window) observations of P in C
OkRecordsOf(P, C) ==
    { i \in NumericRecordsOf(P, C) : Low < data[i].RT[1] /\ data[i].RT[1] < High }

\* a participant-perspective GroupKey of condition C is missing (one word position)
OwnsMissingKey(C) ==
    \E P \in Participants : NumericRecordsOf(P, C) # {} /\ OkRecordsOf(P, C) = {}

CleanedRows == IF RTdata = None THEN {} ELSE RTdata[1].rows

\* C1 as stated: a participant with zero Ok observations for a critical condition
\* (whether or not the participant has any Record, or any numeric Record, for it)
\* has no Record left after MissingDataDetection, nor in the cleaned dataset.
C1_ExclusionForEveryDataset ==
    Completed("MissingDataDetection") =>
        \A P \in Participants : \A C \in cfg.critical_conditions :
            OkRecordsOf(P, C) = {} =>
                /\ \A r \in df.rows : r.PPT # P
                /\ (pc = "Done" => \A r \in CleanedRows : r.PPT # P)

\* C1 (amended): a participant who has at least one numeric-RT Record for a
\* critical condition and no Ok observation for it has no Record left after
\* MissingDataDetection, for any condition, nor in the cleaned dataset.
C1_ExclusionOfObservedGroups ==
    Completed("MissingDataDetection") =>
        \A P \in Participants : \A C \in cfg.critical_conditions :
            (NumericRecordsOf(P, C) # {} /\ OkRecordsOf(P, C) = {}) =>
                /\ \A r \in df.rows : r.PPT # P
                /\ (pc = "Done" => \A r \in CleanedRows : r.PPT # P)

\* an excluded participant who also had an Ok Record in another condition, in an
\* invocation that went on to produce the cleaned dataset
C1_Witness ==
    /\ pc = "Done"
    /\ Completed("MissingDataDetection")
    /\ \E P \in Participants : \E C \in cfg.critical_conditions :
          /\ NumericRecordsOf(P, C) # {}
          /\ OkRecordsOf(P, C) = {}
          /\ \E D \in {"Crit", "Fill"} \ {C} : OkRecordsOf(P, D) # {}
    /\ CleanedRows # {}

\* C2 as stated: with critical conditions given and some GroupKey missing, every
\* non-critical condition that owns a missing GroupKey is removed entirely,
\* whether or not a critical condition owns a missing GroupKey too.
C2_FillerRemovedWheneverMissing ==
    (Completed("MissingDataDetection") /\ cfg.critical_conditions # {}) =>
        \A C \in {"Crit", "Fill"} \ cfg.critical_conditions :
            OwnsMissingKey(C) => \A r \in df.rows : r.Condition # C

\* C2 (amended): when at least one critical condition owns a missing GroupKey,
\* every non-critical condition that owns a missing GroupKey is removed for all
\* participants.
C2_FillerRemovedWithCriticalMissing ==
    (/\ Completed("MissingDataDetection")
     /\ \E K \in cfg.critical_conditions : OwnsMissingKey(K)) =>
        \A C \in {"Crit", "Fill"} \ cfg.critical_conditions :
            OwnsMissingKey(C) => \A r \in df.rows : r.Condition # C

\* a filler condition is removed although a participant who is kept had an Ok
\* Record in it
C2_Witness ==
    /\ Completed("MissingDataDetection")
    /\ \E K \in cfg.critical_conditions : OwnsMissingKey(K)
    /\ \E C \in {"Crit", "Fill"} \ cfg.critical_conditions :
          /\ OwnsMissingKey(C)
          /\ \E P \in Participants :
                /\ OkRecordsOf(P, C) # {}
                /\ \A K \in cfg.critical_conditions :
                      ~(NumericRecordsOf(P, K) # {} /\ OkRecordsOf(P, K) = {})

\* the Records of df that share the exact GroupKey of r under a perspective
SameKey(by, r) ==
    { o \in df.rows :
        /\ o.Condition = r.Condition
        /\ o.WordPos = r.WordPos
        /\ IF by = "PPT" THEN o.PPT = r.PPT ELSE o.Item = r.Item }

\* mean and sd of the defined ExtremeFilteredValues of those Records, SD = k
KeyStats(by, r) ==
    LET defined == { o \in SameKey(by, r) : ~IsNaN(o.RTremoveVal) }
    IN  [n |-> Cardinality(defined), s |-> SumOver(defined, FALSE),
         q |-> SumOver(defined, TRUE), k |-> cfg.filter_outliers.k,
         fb |-> Cardinality(defined) < 2]

WinsorValue(by, r) == IF by = "PPT" THEN r.ppt_values ELSE r.item_values

WinsorLabel(by, r) == IF by = "PPT" THEN r.ppt_labels ELSE r.item_labels

WinsorStage(by) == IF by = "PPT" THEN "WinsorizeByParticipant" ELSE "WinsorizeByItem"

C4_OkIffDefined ==
    Completed("ExtremeFilter") =>
        \A r \in df.rows :
            /\ (r.RTremove = "Ok") <=> ~IsNaN(r.RTremoveVal)
            /\ ~IsNaN(r.RTremoveVal) =>
                  (Low < r.RTremoveVal[1] /\ r.RTremoveVal[1] < High)

\* C5 as stated: every numeric-RT Record gets exactly one band: Below when
\* RT <= low, Ok when low < RT < high, Above when RT >= high.
C5_BandClassification ==
    Completed("ExtremeFilter") =>
        \A r \in df.rows :
            r.RTremove = (IF r.RT[1] <= Low THEN "Below"
                          ELSE IF r.RT[1] < High THEN "Ok"
                          ELSE "Above")

SchemaLines == {228, 231, 239, 253}

SDValid ==
    \/ cfg.filter_outliers.kind = "None"
    \/ cfg.filter_outliers.kind = "num" /\ cfg.filter_outliers.k >= 0

\* C6 as stated: with ExtremeFilter skipped (window = none) and the other stages
\* skipped or enabled, an invocation on a schema-valid dataset does not end in an
\* error: neither MissingDataDetection nor Winsorization fails.
C6_SkippingExtremeFilterNeverFails ==
    (pc = "Error" /\ cfg.remove_extremes = <<>> /\ SDValid) =>
        err.line \in SchemaLines

BadWindow == cfg.remove_extremes # <<>> /\ ~(Low < High)

BadSD ==
    \/ cfg.filter_outliers.kind = "str"
    \/ cfg.filter_outliers.kind = "num" /\ cfg.filter_outliers.k < 0

\* what is printed before the first stage: the opening summary, and the remark
\* that remove_extremes is off
OpeningLog == {"ppts", "conditions", "records", "extremes_skipped"}

NoStageOutput == \A i \in DOMAIN log : log[i] \in OpeningLog

\* C7 as stated: an invocation with an invalid configuration (low >= high, a
\* non-numeric or a negative SD multiplier) executes no stage and emits no stage
\* diagnostics: it is rejected first.
C7_InvalidConfigRejectedFirst ==
    (BadWindow \/ BadSD) => (ran = <<>> /\ NoStageOutput)

\* C7 (amended): low >= high is rejected before any stage has executed or
\* emitted diagnostics.  A non-numeric or negative SD multiplier is rejected
\* before Winsorization executes and before a cleaned dataset is stored, but
\* only once the invocation has passed ExtremeFilter and MissingDataDetection.
C7_InvalidConfigNeverWinsorizes ==
    /\ BadWindow =>
          /\ ran = <<>>
          /\ NoStageOutput
          /\ pc \in {"ExtremeFilter", "Error"}
          /\ (pc = "Error" => err.line \in SchemaLines \cup {264})
    /\ BadSD =>
          /\ ~Ran("WinsorizeByParticipant")
          /\ ~Ran("WinsorizeByItem")
          /\ pc \in {"ExtremeFilter", "MissingDataDetection",
                     "WinsorizeByParticipant", "Error"}
          /\ RTdata = None
          /\ (pc = "Error" =>
                err.line \in SchemaLines \cup {264, 126, 144, 275, 280})
          /\ (pc = "Error" /\ err.line \in {275, 280} =>
                err.type = (IF cfg.filter_outliers.kind = "str"
                            THEN "TypeError" ELSE "ValueError"))

\* a negative SD multiplier rejected after both earlier stages have run
C7_Witness ==
    /\ BadSD
    /\ pc = "Error"
    /\ err = Error("ValueError", 275)
    /\ ran = <<"ExtremeFilter", "MissingDataDetection">>
    /\ ~NoStageOutput

\* the conditions of the loaded data
DataConditions == { data[i].Condition : i \in DOMAIN data }

\* C8 as stated: when a required column is absent, or critical_conditions names
\* a condition that is not in the data, the invocation aborts with SchemaError
\* (the ValueError of line 231 or 239) before any stage runs and without a
\* cleaned dataset.
C8_SchemaErrorOnInvalidInput ==
    (/\ pc # "Start"
     /\ \/ ~(required_columns \subseteq dataCols)
        \/ \E c \in cfg.critical_conditions : c \notin DataConditions) =>
        /\ pc = "Error"
        /\ err.type = "ValueError"
        /\ err.line \in {231, 239}
        /\ ran = <<>>
        /\ RTdata = None

DefinedOf(by, r) == { o \in SameKey(by, r) : ~IsNaN(o.RTremoveVal) }

\* C9 as stated: a GroupKey with two or more defined observations that are all
\* equal gets sd = 0.1: the stage completes, and every value of the group is
\* labelled Ok and left unchanged (SD >= 1).
C9_ZeroVarianceFallback ==
    \A by \in {"PPT", "Item"} : \A r \in df.rows :
        (/\ Ran(WinsorStage(by))
         /\ cfg.filter_outliers.k >= 1
         /\ ~IsNaN(r.RTremoveVal)
         /\ Cardinality(DefinedOf(by, r)) >= 2
         /\ \A o \in DefinedOf(by, r) : o.RTremoveVal = r.RTremoveVal) =>
            /\ ~Failed(WinsorStage(by))
            /\ WinsorLabel(by, r) = "Ok"
            /\ WinsorValue(by, r) = [tag |-> "raw", v |-> r.RTremoveVal[1], b |-> NoBound]

\* C10 as stated: a GroupKey with exactly one defined observation gets the bounds
\* [mean - k * 0.1, mean + k * 0.1] for the SD multiplier k; its bin edges do not
\* make the stage fail, and its value is labelled Ok and left unchanged.
C10_SingleObservationFallback ==
    \A by \in {"PPT", "Item"} : \A r \in df.rows :
        (/\ Ran(WinsorStage(by))
         /\ ~IsNaN(r.RTremoveVal)
         /\ DefinedOf(by, r) = {r}) =>
            /\ KeyStats(by, r).fb
            /\ ~(Failed(WinsorStage(by)) /\ bins_not_unique(KeyStats(by, r)))
            /\ Completed(WinsorStage(by)) =>
                  /\ WinsorLabel(by, r) = "Ok"
                  /\ WinsorValue(by, r) =
                        [tag |-> "raw", v |-> r.RTremoveVal[1], b |-> NoBound]

(***************************************************************************)
(* Scenario C: one participant, one condition, five Records with the RTs   *)
(* 100, 102, 104, 106, 5000.  The items of the five Records vary, so that  *)
(* the item perspective sees the same values in groups of every size.      *)
(***************************************************************************)
ScenarioCValues == <<100, 102, 104, 106, 5000>>

ScenarioCDatasets ==
    { [i \in DOMAIN ScenarioCValues |->
          [PPT |-> 1, Condition |-> "Crit", Item |-> items[i], WordPos |-> 1,
           RT |-> Num(ScenarioCValues[i])]] :
      items \in [DOMAIN ScenarioCValues -> {1, 2}] }

\* the windows of the scenario: none, one that holds all five values, the default
ScenarioCWindows == { <<>>, <<50, 6000>>, <<DefaultLow, DefaultHigh>> }

\* filter_outliers up to the default SD: with these values the products of the
\* exact comparisons (below_lower, above_upper) stay within 32-bit integers
ScenarioCSDChoices ==
    { f \in SDChoices : f.k <= DefaultSD }

ScenarioCConfigs ==
    [critical_conditions : CritChoices, remove_extremes : ScenarioCWindows,
     identify_missing_data : BOOLEAN, filter_outliers : ScenarioCSDChoices]

InitScenarioC ==
    /\ data \in ScenarioCDatasets
    /\ dataCols = required_columns
    /\ RTdata = None
    /\ cfg = NoConfig
    /\ pc = "Start"
    /\ df = EmptyFrame
    /\ err = NoError
    /\ ran = <<>>
    /\ log = <<>>

NextScenarioC ==
    \/ \E c \in ScenarioCConfigs : ColumnValidation(c)
    \/ ExtremeFilter
    \/ MissingDataDetection
    \/ WinsorizeByParticipant
    \/ WinsorizeByItem
    \/ Finish

SpecScenarioC == InitScenarioC /\ [][NextScenarioC]_vars

\* the Records of r's GroupKey carry exactly the five values of Scenario C as
\* their defined ExtremeFilteredValues, and SD = 2
IsScenarioCGroup(by, r) ==
    /\ cfg.filter_outliers = [kind |-> "num", k |-> DefaultSD]
    /\ Cardinality(SameKey(by, r)) = Len(ScenarioCValues)
    /\ \A o \in SameKey(by, r) : ~IsNaN(o.RTremoveVal)
    /\ { o.RTremoveVal[1] : o \in SameKey(by, r) }
           = { ScenarioCValues[i] : i \in DOMAIN ScenarioCValues }

\* C11 as stated: winsorizing the group [100, 102, 104, 106, 5000] with SD = 2
\* labels 5000 Above and clamps it to upper; the other four values are labelled
\* Ok and left unchanged.
C11_ScenarioCClampsLargest ==
    \A by \in {"PPT", "Item"} : \A r \in df.rows :
        (Completed(WinsorStage(by)) /\ IsScenarioCGroup(by, r)) =>
            IF r.RTremoveVal[1] = 5000
            THEN /\ WinsorLabel(by, r) = "Above"
                 /\ WinsorValue(by, r).tag = "upper"
            ELSE /\ WinsorLabel(by, r) = "Ok"
                 /\ WinsorValue(by, r) = [tag |-> "raw", v |-> r.RTremoveVal[1], b |-> NoBound]

\* C11 (amended): the group [100, 102, 104, 106, 5000] has mean 5412 / 5 = 1082.4
\* and 5000 lies less than 2 sample standard deviations above it (the largest of
\* n values is at most (n - 1) / sqrt(n) standard deviations above the mean), so
\* with SD = 2 all five values are labelled Ok and left unchanged.
C11_ScenarioCKeepsAll ==
    \A by \in {"PPT", "Item"} : \A r \in df.rows :
        (Completed(WinsorStage(by)) /\ IsScenarioCGroup(by, r)) =>
            LET st == KeyStats(by, r)
                d  == st.n * 5000 - st.s
            IN  /\ st.n = 5 /\ st.s = 5412 /\ ~st.fb
                /\ d * d * (st.n - 1) < st.n * DefaultSD * DefaultSD * VarNum(st)
                /\ WinsorLabel(by, r) = "Ok"
                /\ WinsorValue(by, r) = [tag |-> "raw", v |-> r.RTremoveVal[1], b |-> NoBound]

\* the cleaned dataset of Scenario C, the five values forming one group under
\* the participant perspective and two groups under the item perspective
C11_Witness ==
    /\ pc = "Done"
    /\ \E r \in df.rows :
          /\ r.RTremoveVal = Num(5000)
          /\ IsScenarioCGroup("PPT", r)
          /\ ~IsScenarioCGroup("Item", r)
          /\ r.ppt_labels = "Ok"

\* the Records of participant P in condition C that enter the stages (numeric RT)
\* are all in df
AllKept(P, C) ==
    \A i \in NumericRecordsOf(P, C) : \E r \in df.rows : r.idx = i /\ r.PPT = P

\* every participant-perspective GroupKey of P in a critical condition has at
\* least one Ok observation
OkInEveryCriticalKey(P) ==
    \A C \in cfg.critical_conditions :
        NumericRecordsOf(P, C) # {} => OkRecordsOf(P, C) # {}

\* C12: a participant for whom every participant-perspective GroupKey of every
\* critical condition has at least one Ok observation is not removed by the
\* exclusion policy: after MissingDataDetection, and in the cleaned dataset, all
\* of the participant's Records in critical conditions are still present.
C12_Retention ==
    Completed("MissingDataDetection") =>
        \A P \in Participants :
            OkInEveryCriticalKey(P) =>
                \A C \in cfg.critical_conditions :
                    /\ AllKept(P, C)
                    /\ (pc = "Done" =>
                          \A i \in NumericRecordsOf(P, C) :
                              \E r \in CleanedRows : r.idx = i)

\* Scenario A beside an excluded participant: P keeps a Record banded Below and an
\* Ok Record of a critical condition, while another participant is removed
C12_Witness ==
    /\ Completed("MissingDataDetection")
    /\ \E P \in Participants : \E C \in cfg.critical_conditions :
          /\ OkInEveryCriticalKey(P)
          /\ \E r \in df.rows :
                r.PPT = P /\ r.Condition = C /\ r.RTremove = "Below" /\ IsNaN(r.RTremoveVal)
          /\ \E r \in df.rows :
                r.PPT = P /\ r.Condition = C /\ r.RTremove = "Ok" /\ ~IsNaN(r.RTremoveVal)
    /\ \E Q \in Participants : \A r \in df.rows : r.PPT # Q

\* the frame that enters MissingDataDetection: the numeric copy of the data
\* after ExtremeFilter
StageInput == remove_extremes(NumericCopy(data), Low, High)

Logged(event) == \E i \in DOMAIN log : log[i] = event

\* MissingDataDetection has just run to its end
AfterMissingDataDetection ==
    pc = "WinsorizeByParticipant" /\ Ran("MissingDataDetection")

\* C13: with critical_conditions empty, MissingDataDetection removes nothing:
\* the Records after the stage are the Records before it, whatever groups are
\* missing, and the missing groups of the participant perspective are reported.
C13_NoCriticalConditionsRemovesNothing ==
    (Ran("MissingDataDetection") /\ cfg.critical_conditions = {}) =>
        /\ { r.idx : r \in df.rows } = { i \in DOMAIN data : ~IsNaN(data[i].RT) }
        /\ AfterMissingDataDetection =>
              /\ df = StageInput
              /\ missing_by(StageInput, "PPT") # {} =>
                    (Logged("missing_by_ppt") /\ Logged("no_critical_conditions"))
              /\ ~Logged("ppts_removed")
              /\ ~Logged("conditions_removed")

\* Scenario D: a participant without any Ok observation in a condition is kept
\* and the missing group is reported
C13_Witness ==
    /\ AfterMissingDataDetection
    /\ cfg.critical_conditions = {}
    /\ Logged("missing_by_ppt")
    /\ \E P \in Participants : \E C \in DataConditions :
          /\ NumericRecordsOf(P, C) # {}
          /\ OkRecordsOf(P, C) = {}
          /\ \E Q \in Participants \ {P} : OkRecordsOf(Q, C) # {}
          /\ AllKept(P, C)

\* C14: the item-perspective check of MissingDataDetection is report-only: the
\* Records that leave the stage are exactly those left by the participant
\* policy, unaltered, whether or not an item-perspective group is missing.
C14_ItemMissingnessReportOnly ==
    AfterMissingDataDetection =>
        LET policy == identify_by_ppt(StageInput, cfg.critical_conditions).frame
        IN  /\ df = policy
            /\ Logged("missing_by_item") <=> missing_by(policy, "Item") # {}

\* an item whose group is missing is reported, and its Records stay, next to a
\* participant removed by the policy
C14_Witness ==
    /\ AfterMissingDataDetection
    /\ Logged("missing_by_item")
    /\ Logged("ppts_removed")
    /\ \E r \in df.rows : ItemKey(r) \in missing_by(df, "Item")

\* SD is a non-negative number outside the recommended range [1, 3]
AdvisorySD ==
    /\ cfg.filter_outliers.kind = "num"
    /\ cfg.filter_outliers.k >= 0
    /\ (cfg.filter_outliers.k < 1 \/ cfg.filter_outliers.k > 3)

\* a winsorization pass over df fails whatever the SD multiplier is: no
\* ExtremeFilteredValue column, no Record, a group without a defined value, or
\* a group of two or more equal values
FailsWhateverSD(by) ==
    \/ "RTremoveVal" \notin df.cols
    \/ df.rows = {}
    \/ \E r \in df.rows :
          \/ KeyStats(by, r).n = 0
          \/ KeyStats(by, r).n >= 2 /\ VarNum(KeyStats(by, r)) = 0

\* C15 as stated: a non-negative SD multiplier below 1 (0 included) or above 3 is
\* only advisory: the advisory is emitted, and the multiplier itself raises no
\* error -- winsorization runs with it and the invocation reaches Done (a pass
\* fails only for a reason that does not depend on the multiplier).
C15_OutOfRangeSDOnlyAdvisory ==
    (AdvisorySD /\ Ran("WinsorizeByParticipant")) =>
        /\ Logged("sd_advisory")
        /\ \A by \in {"PPT", "Item"} :
              Failed(WinsorStage(by)) => FailsWhateverSD(by)
        /\ (pc = "Error" => \E by \in {"PPT", "Item"} : FailsWhateverSD(by))

\* the half of C15 that the code keeps: an SD multiplier above 3
C15_AboveThreeOnlyAdvisory ==
    (AdvisorySD /\ cfg.filter_outliers.k > 3) => C15_OutOfRangeSDOnlyAdvisory

\* ExtremeFilter has just run to its end
AfterExtremeFilter == pc = "MissingDataDetection" /\ Ran("ExtremeFilter")

\* C16: ExtremeFilter preserves the rows: after the stage df holds exactly the
\* Records that entered it (those with a numeric RT), each with its PPT,
\* Condition, Item, WordPos and RT unchanged; only the columns RTremove and
\* RTremoveVal are added, and RTremoveVal is either undefined or the Record's RT.
C16_ExtremeFilterPreservesRows ==
    AfterExtremeFilter =>
        /\ df.cols = required_columns \cup {"RTremove", "RTremoveVal"}
        /\ { r.idx : r \in df.rows } = { i \in DOMAIN data : ~IsNaN(data[i].RT) }
        /\ Cardinality(df.rows) = Cardinality({ i \in DOMAIN data : ~IsNaN(data[i].RT) })
        /\ \A r \in df.rows :
              /\ [PPT |-> r.PPT, Condition |-> r.Condition, Item |-> r.Item,
                  WordPos |-> r.WordPos, RT |-> r.RT] = data[r.idx]
              /\ r.RTremoveVal \in {NaN, r.RT}
              /\ r.RTremove \in {"Below", "Ok", "Above", "NaN"}
              /\ r.ppt_values = NoValue /\ r.item_values = NoValue
              /\ r.ppt_labels = "-" /\ r.item_labels = "-"

\* after the stage the frame holds a Record below the window, one in it and one
\* above it
C16_Witness ==
    /\ AfterExtremeFilter
    /\ \E r \in df.rows : r.RTremove = "Below" /\ IsNaN(r.RTremoveVal)
    /\ \E r \in df.rows : r.RTremove = "Ok" /\ r.RTremoveVal = r.RT
    /\ \E r \in df.rows : r.RTremove = "Above" /\ IsNaN(r.RTremoveVal)

\* C17: get_RTdata never changes Project.data: no step of an invocation,
\* whatever the configuration and whether it ends in Done or in an error,
\* changes the rows, the values or the columns of data.
C17_SourceDataUnchanged ==
    [][data' = data /\ dataCols' = dataCols]_vars

\* a cleaned dataset with derived columns and without the Records of an
\* excluded participant, beside data that still holds a Record without a
\* numeric RT and the excluded participant's Records
C17_Witness ==
    /\ pc = "Done"
    /\ RTdata # None
    /\ "RTremoveVal" \in RTdata[1].cols
    /\ "RTfiltered_by_ppt_values" \in RTdata[1].cols
    /\ dataCols = required_columns
    /\ \E i \in DOMAIN data : IsNaN(data[i].RT)
    /\ \E P \in Participants :
          /\ NumericRecordsOf(P, "Crit") # {}
          /\ \A r \in CleanedRows : r.PPT # P
    /\ CleanedRows # {}

\* C18: ExtremeFilter is idempotent: applying _remove_extremes with the same
\* window to the frame it produced gives that frame again -- every Record keeps
\* its band label and its ExtremeFilteredValue, and every Record labelled Ok is
\* labelled Ok again.
C18_ExtremeFilterIdempotent ==
    Completed("ExtremeFilter") =>
        LET again == remove_extremes(df, Low, High)
        IN  /\ again = df
            /\ \A r \in df.rows :
                  r.RTremove = "Ok" =>
                      remove_extremes_row(r, Low, High).RTremove = "Ok"
            /\ AfterExtremeFilter =>
                  again = remove_extremes(NumericCopy(data), Low, High)

\* the filter's output holds a Record below the window, a Record in it, and a
\* Record whose RT equals high (labelled Ok without a defined value)
C18_Witness ==
    /\ AfterExtremeFilter
    /\ \E r \in df.rows : r.RTremove = "Below"
    /\ \E r \in df.rows : r.RTremove = "Ok" /\ ~IsNaN(r.RTremoveVal)
    /\ \E r \in df.rows : r.RTremove = "Ok" /\ IsNaN(r.RTremoveVal)

\* the stages in the order of the code, and the control points in that order
StageOrder ==
    <<"ExtremeFilter", "MissingDataDetection", "WinsorizeByParticipant", "WinsorizeByItem">>

StageIndex(stage) == CHOOSE i \in DOMAIN StageOrder : StageOrder[i] = stage

PcOrder == <<"Start">> \o StageOrder \o <<"Finish", "Done">>

PcIndex(p) == CHOOSE i \in DOMAIN PcOrder : PcOrder[i] = p

\* the stages that have run, each once and in the order of StageOrder
RanInOrder(r) ==
    /\ \A i \in DOMAIN r : \E j \in DOMAIN StageOrder : StageOrder[j] = r[i]
    /\ \A i, j \in DOMAIN r : i < j => StageIndex(r[i]) < StageIndex(r[j])

\* C19: within an invocation control only moves forward through ColumnValidation,
\* ExtremeFilter, MissingDataDetection, WinsorizeByParticipant, WinsorizeByItem,
\* Done (or leaves to Error); a step runs at most the stage control is at; each
\* stage runs at most once, in that order, the item pass only after the
\* participant pass; nothing runs after Done or Error.
C19_StageOrdering ==
    [][/\ pc \notin {"Done", "Error"}
       /\ pc' # "Error" => PcIndex(pc') > PcIndex(pc)
       /\ ran' = ran \/ (pc # "Start" /\ ran' = Append(ran, pc))
       /\ RanInOrder(ran')
       /\ Ran("WinsorizeByItem")' => Ran("WinsorizeByParticipant")'
       /\ pc' = "Done" => pc = "Finish"]_vars

\* an invocation in which all four stages ran and the cleaned dataset is stored
C19_Witness ==
    /\ pc = "Done"
    /\ ran = StageOrder
    /\ RTdata # None

(***************************************************************************)
(* Repeated invocations on one Project: when get_RTdata has returned or    *)
(* raised, it may be called again, with any configuration.  The locals     *)
(* (df, the configuration) are gone; self.data and self.RTdata stay.       *)
(***************************************************************************)
MultiFamily ==
    [ppts |-> {1, 2}, conds |-> {"Crit", "Fill"}, items |-> {1},
     rts |-> {Num(DefaultLow), Num(300), Num(400)}]

MultiDatasets ==
    UNION { { s \in [1..n -> RawRows(MultiFamily)] :
                \A i \in 1..(n - 1) : Rank(s[i]) <= Rank(s[i + 1]) } :
            n \in 0..MaxRowsMulti }

MultiWindows == { <<>>, <<DefaultLow, DefaultHigh>>, <<DefaultHigh, DefaultLow>> }

MultiSDChoices == { f \in SDChoices : f.k \in {0, DefaultSD} }

MultiConfigs ==
    [critical_conditions : CritChoices, remove_extremes : MultiWindows,
     identify_missing_data : BOOLEAN, filter_outliers : MultiSDChoices]

InitMulti ==
    /\ data \in MultiDatasets
    /\ dataCols = required_columns
    /\ RTdata = None
    /\ cfg = NoConfig
    /\ pc = "Start"
    /\ df = EmptyFrame
    /\ err = NoError
    /\ ran = <<>>
    /\ log = <<>>

\* the invocation is over (returned after line 283, or raised); the next call starts
Return ==
    /\ pc \in {"Done", "Error"}
    /\ pc' = "Start"
    /\ cfg' = NoConfig
    /\ df' = EmptyFrame
    /\ err' = NoError
    /\ ran' = <<>>
    /\ log' = <<>>
    /\ UNCHANGED <<data, dataCols, RTdata>>

NextMulti ==
    \/ \E c \in MultiConfigs : ColumnValidation(c)
    \/ ExtremeFilter
    \/ MissingDataDetection
    \/ WinsorizeByParticipant
    \/ WinsorizeByItem
    \/ Finish
    \/ Return

SpecMulti == InitMulti /\ [][NextMulti]_vars

\* what one invocation computes from data d under configuration c, when it succeeds
ResultOf(d, c) ==
    LET copy == NumericCopy(d)
        e == IF c.remove_extremes = <<>> THEN copy
             ELSE remove_extremes(copy, c.remove_extremes[1], c.remove_extremes[2])
        m == IF c.identify_missing_data
             THEN identify_missing_data(e, c.critical_conditions).frame ELSE e
        k == c.filter_outliers.k
        f == IF c.filter_outliers.kind = "None" THEN m
             ELSE filter_outliers_by(filter_outliers_by(m, "PPT", k), "Item", k)
    IN  [cols |-> f.cols \cup {"index"}, rows |-> f.rows]

\* C20: over any sequence of invocations on one Project, RTdata changes only when
\* an invocation succeeds, and then it becomes the result computed from data and
\* that invocation's configuration alone (nothing of the former RTdata is
\* carried over); an invocation that ends in an error, and every step before
\* the last one, leaves RTdata as it was.
C20_RTdataIsLastSuccessfulResult ==
    [][/\ pc' = "Done" => RTdata' = Some(ResultOf(data, cfg))
       /\ pc' # "Done" => RTdata' = RTdata
       /\ RTdata' # RTdata => (pc = "Finish" /\ pc' = "Done")
       /\ data' = data]_vars

\* a later invocation failed inside a stage, after the working copy had been
\* changed, and RTdata still holds the non-empty result of an earlier invocation
C20_Witness ==
    /\ pc = "Error"
    /\ err.line = 192
    /\ Ran("MissingDataDetection")
    /\ RTdata # None
    /\ CleanedRows # {}
    /\ df.rows # CleanedRows

\* what the item pass makes of Record r of df: label and value computed from
\* the ExtremeFilteredValues of the Records sharing r's (Item, Condition,
\* WordPos), written to the ByItem fields, every other field as it was
ItemPassOf(r) ==
    [r EXCEPT !.item_labels = labels(r.RTremoveVal, KeyStats("Item", r)),
              !.item_values = trimmed(r.RTremoveVal, KeyStats("Item", r))]

\* C21: the two winsorization passes are independent: the step of
\* WinsorizeByItem computes bounds, labels and values from ExtremeFilteredValue
\* (not from the participant-winsorized values), writes only the ByItem label
\* and value, and leaves every other field of every Record -- the ByParticipant
\* label and value included -- as WinsorizeByParticipant produced it.
C21_PassesIndependent ==
    [][pc = "WinsorizeByItem" =>
          IF pc' = "Error"
          THEN df' = df
          ELSE /\ df'.rows = { ItemPassOf(r) : r \in df.rows }
               /\ df'.cols = df.cols \cup {"RTfiltered_by_item_labels",
                                           "RTfiltered_by_item_values"}
               /\ \A r \in df.rows :
                     /\ r.ppt_labels = labels(r.RTremoveVal, KeyStats("PPT", r))
                     /\ r.ppt_values = trimmed(r.RTremoveVal, KeyStats("PPT", r))
                     /\ \E o \in df'.rows :
                           /\ o.idx = r.idx
                           /\ o.ppt_labels = r.ppt_labels
                           /\ o.ppt_values = r.ppt_values
                           /\ o.RTremoveVal = r.RTremoveVal]_vars

\* both passes are complete and a Record kept by the participant pass (Ok, raw
\* value) was clamped by the item pass
C21_Witness ==
    /\ Completed("WinsorizeByItem")
    /\ \E r \in df.rows :
          /\ r.ppt_labels = "Ok" /\ r.ppt_values.tag = "raw"
          /\ r.item_labels = "Above" /\ r.item_values.tag = "upper"
          /\ r.item_values.b # KeyStats("PPT", r)

\* participant P owns a missing GroupKey of condition C (in the frame that
\* enters MissingDataDetection)
OwnsMissingKeyOf(P, C) == NumericRecordsOf(P, C) # {} /\ OkRecordsOf(P, C) = {}

\* P is excluded by the policy: it owns a missing GroupKey of a critical condition
Excluded(P) == \E K \in cfg.critical_conditions : OwnsMissingKeyOf(P, K)

\* every missing GroupKey of C belongs to a participant that the policy excludes
MissingOnlyAmongExcluded(C) ==
    /\ OwnsMissingKey(C)
    /\ \A P \in Participants : OwnsMissingKeyOf(P, C) => Excluded(P)

\* C22: the non-critical conditions to remove are fixed from the missing groups
\* as they stand before any participant is excluded: when a critical condition
\* owns a missing GroupKey, a non-critical condition all of whose missing
\* GroupKeys belong to participants excluded in the same step is removed for
\* every participant all the same, and the frame that leaves the stage is the
\* input without the excluded participants and without those conditions.
C22_FillerSetFixedBeforeExclusion ==
    (Completed("MissingDataDetection") /\ \E K \in cfg.critical_conditions : OwnsMissingKey(K)) =>
        /\ \A C \in DataConditions \ cfg.critical_conditions :
              MissingOnlyAmongExcluded(C) => \A r \in df.rows : r.Condition # C
        /\ AfterMissingDataDetection =>
              df.rows = { r \in StageInput.rows :
                            /\ ~Excluded(r.PPT)
                            /\ ~(r.Condition \notin cfg.critical_conditions
                                 /\ OwnsMissingKey(r.Condition)) }

\* the filler condition's only missing GroupKey belongs to an excluded
\* participant, and the Ok Record of a participant who is not excluded is
\* removed with the condition
C22_Witness ==
    /\ AfterMissingDataDetection
    /\ \E C \in DataConditions \ cfg.critical_conditions :
          /\ MissingOnlyAmongExcluded(C)
          /\ \E Q \in Participants :
                /\ ~Excluded(Q)
                /\ OkRecordsOf(Q, C) # {}
                /\ \A r \in df.rows : ~(r.PPT = Q /\ r.Condition = C)
    /\ Logged("conditions_removed")

====
